---------------------------- MODULE Spec2Model ----------------------------
(***************************************************************************)
(* Weather collection pipeline (fetch_weather -> transform_weather ->      *)
(* upload_to_s3) and the read-side endpoint GET /products (list_products). *)
(*                                                                         *)
(* Python values are tagged records: t is the Python type, the other field *)
(* the payload.  A dict is a TLA+ function whose domain is its key set.    *)
(***************************************************************************)
EXTENDS Integers, Sequences, FiniteSets, TLC

VARIABLES
    pc,        \* position of the current pipeline invocation
    now,       \* the UTC wall clock, in seconds
    store,     \* the bucket: a function from object keys to bodies
    store0,    \* the bucket as it was when the current invocation started
    coords,    \* config.coords of the current invocation
    apiKey,    \* whether OPENWEATHER_API_KEY resolves for this invocation
    out,       \* fetch_weather's local list `out`
    raw,       \* the list fetch_weather returned (NoOutput before it returns)
    products,  \* the list transform_weather returned
    result,    \* the value upload_to_s3 returned
    requests,  \* provider requests issued by this invocation, with their answers
    sleeps,    \* time.sleep(0.2) calls made by this invocation
    stages,    \* the ops started by this invocation, in order
    failure,   \* the exception that ended the invocation, or "none"
    puts,      \* put_object calls issued by this invocation
    input,     \* input of the function under study (pure-function specifications)
    output,    \* its outcome, or the last HTTP response of the API
    ctx,       \* the JobMetricsContext instances: job_name and start_time
    ctxPc,     \* where each instance is: absent, created, entered or exited
    observed,  \* the exception type each instance's __exit__ was given
    propagated,\* whether that exception left the with block
    dagster_job_total,          \* counter, by job_name
    dagster_job_success_total,  \* counter, by job_name
    dagster_job_failure_total,  \* counter, by job_name
    dagster_jobs_running,       \* gauge
    dagster_run_duration_seconds \* histogram, by job_name: count and sum

metricVars == <<ctx, ctxPc, observed, propagated, dagster_job_total,
                dagster_job_success_total, dagster_job_failure_total,
                dagster_jobs_running, dagster_run_duration_seconds>>

vars == <<pc, now, store, store0, coords, apiKey, out, raw, products, result, requests,
          sleeps, stages, failure, puts, input, output, metricVars>>

pipeVars == <<pc, store0, coords, apiKey, out, raw, products, result, requests,
              sleeps, stages, failure, puts>>

(***************************************************************************)
(* Bounds                                                                  *)
(***************************************************************************)
MaxTime == 2

SecondsPerDay == 2

(***************************************************************************)
(* Python values                                                           *)
(***************************************************************************)
None == [t |-> "none"]

Num(n) == [t |-> "num", n |-> n]

Str(s) == [t |-> "str", s |-> s]

Dict(f) == [t |-> "map", m |-> f]

List(l) == [t |-> "list", l |-> l]

EmptyDict == Dict(<<>>)

NoOutput == [t |-> "nooutput"]

Ok(v) == [ok |-> TRUE, val |-> v]

Raise(e) == [ok |-> FALSE, err |-> e]

IsDict(x) == x.t = "map"

\* Python truth value: None, 0, "", {} and [] are false.
Truthy(x) ==
    CASE x.t = "none" -> FALSE
      [] x.t = "num"  -> x.n # 0
      [] x.t = "str"  -> x.s # ""
      [] x.t = "map"  -> DOMAIN x.m # {}
      [] x.t = "list" -> x.l # <<>>
      [] OTHER        -> TRUE

\* Python `x or d`.
PyOr(x, d) == IF Truthy(x) THEN x ELSE d

\* dict.get(k, d) on a dict.
GetDefault(d, k, dflt) == IF k \in DOMAIN d.m THEN d.m[k] ELSE dflt

\* dict.get(k) on a dict.
Get(d, k) == GetDefault(d, k, None)

\* Python str(x) as an f-string renders it.
FStr(x) ==
    CASE x.t = "none" -> "None"
      [] x.t = "num"  -> ToString(x.n)
      [] x.t = "str"  -> x.s
      [] OTHER        -> "<object>"

(***************************************************************************)
(* transform_weather                                                       *)
(***************************************************************************)
\* hashlib.sha1(s.encode()).hexdigest()[:16]: a function of the string alone.
Sha1Hex16(s) == "sha1:" \o s

\* datetime.isoformat() of the clock value.
IsoFormat(t) == "T" \o ToString(t)

\* (w.get("weather") or [{}])[0]: only a non-empty list can be indexed by 0.
WeatherHead(w) ==
    LET wl == PyOr(Get(w, "weather"), List(<<EmptyDict>>))
    IN  IF wl.t = "list" THEN Ok(wl.l[1])
        ELSE IF wl.t = "map" THEN Raise("KeyError")
        ELSE IF wl.t = "str" THEN Ok(Str("char"))
        ELSE Raise("TypeError")

SchemaFields ==
    <<"id", "collected_at", "location_name", "lat", "lon", "temp", "feels_like",
      "humidity", "pressure", "wind_speed", "wind_deg", "weather", "sunrise",
      "sunset", "source">>

\* The body of the loop of transform_weather for one raw observation w.
TransformOne(w, ts) ==
    IF ~IsDict(w) THEN Raise("AttributeError")
    ELSE
    LET main  == GetDefault(w, "main", EmptyDict)
        wind  == GetDefault(w, "wind", EmptyDict)
        sys   == GetDefault(w, "sys", EmptyDict)
        meta  == PyOr(Get(w, "_meta"), EmptyDict)
        coord == PyOr(Get(w, "coord"), EmptyDict)
        head  == WeatherHead(w)
    IN  IF ~IsDict(main) \/ ~IsDict(wind) \/ ~IsDict(sys) \/ ~IsDict(meta)
           \/ ~IsDict(coord)
        THEN Raise("AttributeError")
        ELSE IF ~head.ok THEN head
        ELSE IF ~IsDict(head.val) THEN Raise("AttributeError")
        ELSE
        LET lat == Get(coord, "lat")
            lon == Get(coord, "lon")
        IN  Ok([id            |-> Str(Sha1Hex16(FStr(lat) \o "," \o FStr(lon) \o ","
                                                \o FStr(Get(w, "dt")))),
                collected_at  |-> Str(ts),
                location_name |-> PyOr(Get(meta, "requested_name"), Get(w, "name")),
                lat           |-> lat,
                lon           |-> lon,
                temp          |-> Get(main, "temp"),
                feels_like    |-> Get(main, "feels_like"),
                humidity      |-> Get(main, "humidity"),
                pressure      |-> Get(main, "pressure"),
                wind_speed    |-> Get(wind, "speed"),
                wind_deg      |-> Get(wind, "deg"),
                weather       |-> Get(head.val, "description"),
                sunrise       |-> Get(sys, "sunrise"),
                sunset        |-> Get(sys, "sunset"),
                source        |-> Str("openweathermap_current")])

\* Variant: the id is hashed over the collection time as well.
TransformWeatherTimedIds(rawList, t) ==
    LET ts == IsoFormat(t)
        rs == [i \in 1..Len(rawList) |-> TransformOne(rawList[i], ts)]
    IN  IF \E i \in 1..Len(rawList) : ~rs[i].ok
        THEN rs[CHOOSE i \in 1..Len(rawList) :
                    ~rs[i].ok /\ \A j \in 1..(i - 1) : rs[j].ok]
        ELSE Ok([i \in 1..Len(rawList) |->
                   [rs[i].val EXCEPT !.id = Str(Sha1Hex16(rs[i].val.id.s \o "," \o ts))]])

\* transform_weather(raw) at clock value t: the first failing observation
\* raises, otherwise one product per observation, in order.
TransformWeather(rawList, t) ==
    LET ts == IsoFormat(t)
        rs == [i \in 1..Len(rawList) |-> TransformOne(rawList[i], ts)]
    IN  IF \E i \in 1..Len(rawList) : ~rs[i].ok
        THEN rs[CHOOSE i \in 1..Len(rawList) :
                    ~rs[i].ok /\ \A j \in 1..(i - 1) : rs[j].ok]
        ELSE Ok([i \in 1..Len(rawList) |-> rs[i].val])

(***************************************************************************)
(* JSON text.  A text is a sequence of lexical tokens; a token has a kind  *)
(* k and a spelling x.  "ws" is a blank, "nl" a line break and "junk" any  *)
(* run of characters that is not a JSON token.                             *)
(***************************************************************************)
Tok(k, x) == [k |-> k, x |-> x]

Punct(c) == Tok("punct", c)

Newline == Tok("nl", "\n")

Blank == Tok("ws", " ")

Junk == Tok("junk", "?")

\* The numbers a provider response of the model can carry.
Numbers == {-87, 0, 1, 6, 7, 41, 49}

\* json.dumps of a scalar.
JsonScalar(v) ==
    CASE v.t = "none" -> Tok("lit", "null")
      [] v.t = "num"  -> Tok("number", ToString(v.n))
      [] v.t = "str"  -> Tok("string", v.s)

IsScalarTok(tk) ==
    \/ tk = Tok("lit", "null")
    \/ tk.k = "string"
    \/ tk.k = "number" /\ \E n \in Numbers : ToString(n) = tk.x

\* json.loads of a scalar token.
ScalarOf(tk) ==
    CASE tk.k = "lit"    -> None
      [] tk.k = "string" -> Str(tk.x)
      [] tk.k = "number" -> Num(CHOOSE n \in Numbers : ToString(n) = tk.x)

\* sorted() of the keys a product can have (sort_keys=True).
SortedFields ==
    <<"collected_at", "feels_like", "humidity", "id", "lat", "location_name",
      "lon", "pressure", "source", "sunrise", "sunset", "temp", "weather",
      "wind_deg", "wind_speed">>

RECURSIVE Flatten(_)
Flatten(ss) == IF ss = <<>> THEN <<>> ELSE Head(ss) \o Flatten(Tail(ss))

\* sep.join(parts) for sequences of tokens.
RECURSIVE JoinWith(_, _)
JoinWith(sep, parts) ==
    IF parts = <<>> THEN <<>>
    ELSE IF Len(parts) = 1 THEN Head(parts)
    ELSE Head(parts) \o sep \o JoinWith(sep, Tail(parts))

\* json.dumps(p, separators=(",", ":"), sort_keys=True) for a flat dict p.
JsonDumps(p) ==
    LET ks   == SelectSeq(SortedFields, LAMBDA k : k \in DOMAIN p)
        item == [i \in 1..Len(ks) |->
                    <<Tok("string", ks[i]), Punct(":"), JsonScalar(p[ks[i]])>>]
    IN  <<Punct("{")>> \o JoinWith(<<Punct(",")>>, item) \o <<Punct("}")>>

\* The index of the first line break of text, 0 if it has none.
FindNewline(text) ==
    LET at == {i \in 1..Len(text) : text[i] = Newline}
    IN  IF at = {} THEN 0 ELSE CHOOSE i \in at : \A j \in at : i <= j

\* str.splitlines(): no empty last line after a final line break.
RECURSIVE SplitLines(_)
SplitLines(text) ==
    IF text = <<>> THEN <<>>
    ELSE LET i == FindNewline(text)
         IN  IF i = 0 THEN <<text>>
             ELSE <<SubSeq(text, 1, i - 1)>> \o SplitLines(SubSeq(text, i + 1, Len(text)))

\* line.strip() is a non-empty string.
NonBlank(line) == \E i \in 1..Len(line) : line[i] # Blank

\* The dict of the members key:value,... of a JSON object from member j on;
\* of two equal keys the later wins.
RECURSIVE Members(_, _)
Members(inner, j) ==
    IF 4 * j + 3 > Len(inner) THEN <<>>
    ELSE Members(inner, j + 1) @@ (inner[4 * j + 1].x :> ScalarOf(inner[4 * j + 3]))

\* json.loads(line): a scalar, or an object of scalar members; anything
\* else raises.
JsonLoads(line) ==
    LET s == SelectSeq(line, LAMBDA tk : tk # Blank)
        n == Len(s)
    IN  IF n = 1 /\ IsScalarTok(s[1]) THEN Ok(ScalarOf(s[1]))
        ELSE IF n >= 2 /\ s[1] = Punct("{") /\ s[n] = Punct("}")
        THEN LET inner == SubSeq(s, 2, n - 1)
                 m     == Len(inner)
                 cnt   == (m + 1) \div 4
                 wellFormed ==
                     /\ m % 4 = 3
                     /\ \A j \in 0..(cnt - 1) :
                           /\ inner[4 * j + 1].k = "string"
                           /\ inner[4 * j + 2] = Punct(":")
                           /\ IsScalarTok(inner[4 * j + 3])
                           /\ j < cnt - 1 => inner[4 * j + 4] = Punct(",")
             IN  IF m = 0 THEN Ok(<<>>)
                 ELSE IF wellFormed THEN Ok(Members(inner, 0))
                 ELSE Raise("JSONDecodeError")
        ELSE Raise("JSONDecodeError")

(***************************************************************************)
(* Object keys and upload_to_s3                                            *)
(***************************************************************************)
BUCKET == "dagster-weather-products"

PREFIX == "weather-products/"

\* f"{now:%Y/%m/%d}/{now:%H%M%S}": zero-padded fields of fixed width, the
\* calendar date first and the time of day second.
Stamp(t) == <<t \div SecondsPerDay, t % SecondsPerDay>>

\* f"{config.prefix}{now:%Y/%m/%d}/{now:%H%M%S}.jsonl"
KeyOf(t) == [prefix |-> PREFIX, stamp |-> Stamp(t), ext |-> ".jsonl"]

\* Variant: the lines are joined by a blank instead of a line break.
BodyOfBlankJoined(prods) ==
    JoinWith(<<Blank>>, [i \in 1..Len(prods) |-> JsonDumps(prods[i])])

\* "\n".join(json.dumps(p, separators=(",", ":"), sort_keys=True) for p in products)
BodyOf(prods) == JoinWith(<<Newline>>, [i \in 1..Len(prods) |-> JsonDumps(prods[i])])

S3Url(key) == [t |-> "s3url", bucket |-> BUCKET, key |-> key]

\* s3.put_object(Bucket, Key, Body): creates the key or replaces its body.
PutObject(st, key, body) == (key :> body) @@ st

\* Variant: a put that fails leaves the part of the body already sent.
UploadToS3PartialOnFailure(st, prods, t, putOk) ==
    IF prods = <<>>
    THEN [store |-> st, puts |-> 0, ret |-> Ok(Str(""))]
    ELSE IF putOk
    THEN [store |-> PutObject(st, KeyOf(t), BodyOf(prods)), puts |-> 1,
          ret |-> Ok(S3Url(KeyOf(t)))]
    ELSE [store |-> PutObject(st, KeyOf(t),
                              SubSeq(BodyOf(prods), 1, Len(BodyOf(prods)) - 1)),
          puts |-> 1, ret |-> Raise("ClientError")]

\* Variant: no early return for an empty batch.
UploadToS3NoEmptyCheck(st, prods, t, putOk) ==
    IF putOk
    THEN [store |-> PutObject(st, KeyOf(t), BodyOf(prods)), puts |-> 1,
          ret |-> Ok(S3Url(KeyOf(t)))]
    ELSE [store |-> st, puts |-> 1, ret |-> Raise("ClientError")]

\* upload_to_s3(products) at clock value t over bucket st; putOk says whether
\* put_object succeeds.  Yields the bucket after the call, the number of
\* put_object calls issued and the value returned or the exception raised.
UploadToS3(st, prods, t, putOk) ==
    IF prods = <<>>
    THEN [store |-> st, puts |-> 0, ret |-> Ok(Str(""))]
    ELSE IF putOk
    THEN [store |-> PutObject(st, KeyOf(t), BodyOf(prods)), puts |-> 1,
          ret |-> Ok(S3Url(KeyOf(t)))]
    ELSE [store |-> st, puts |-> 1, ret |-> Raise("ClientError")]

(***************************************************************************)
(* list_products                                                           *)
(***************************************************************************)
\* Python's order on the keys of one prefix and one suffix: that of the
\* stamps, field by field.
KeyLess(a, b) ==
    \/ a.stamp[1] < b.stamp[1]
    \/ a.stamp[1] = b.stamp[1] /\ a.stamp[2] < b.stamp[2]

\* sorted(keys)
RECURSIVE Sorted(_)
Sorted(S) ==
    IF S = {} THEN <<>>
    ELSE LET m == CHOOSE k \in S : \A j \in S \ {k} : KeyLess(k, j)
         IN  <<m>> \o Sorted(S \ {m})

\* s[-limit:] as Python slices: a start below -len(s) is 0, one above len(s)
\* is len(s), and -0 is 0.
PySuffix(s, limit) ==
    LET n     == Len(s)
        start == 0 - limit
        lo    == IF start < 0
                 THEN (IF n + start < 0 THEN 0 ELSE n + start)
                 ELSE (IF start > n THEN n ELSE start)
    IN  SubSeq(s, lo + 1, n)

\* Variant: a line that does not parse is skipped.
ParseBodySkipBad(body) ==
    LET lines == SelectSeq(SplitLines(body),
                           LAMBDA ln : NonBlank(ln) /\ JsonLoads(ln).ok)
    IN  Ok([i \in 1..Len(lines) |-> JsonLoads(lines[i]).val])

\* The inner loop of list_products over one body: every non-blank line is
\* parsed, the first line that does not parse raises.
ParseBody(body) ==
    LET lines == SelectSeq(SplitLines(body), NonBlank)
        rs    == [i \in 1..Len(lines) |-> JsonLoads(lines[i])]
    IN  IF \E i \in 1..Len(lines) : ~rs[i].ok
        THEN Raise("JSONDecodeError")
        ELSE Ok([i \in 1..Len(lines) |-> rs[i].val])

NoFault == [call |-> "none", n |-> 0, kind |-> "none"]

\* botocore exceptions that are ClientError, and one that is not.
ClientErrors == {"NoSuchBucket", "AccessDenied"}

StorageErrors == ClientErrors \cup {"EndpointConnectionError"}

\* The storage faults a request can meet: none, list_objects_v2 raising, or
\* the n-th get_object raising.
Faults ==
    {NoFault}
    \cup {[call |-> "list", n |-> 0, kind |-> e] : e \in StorageErrors}
    \cup {[call |-> "get", n |-> j, kind |-> e] :
             j \in 1..2, e \in StorageErrors}

\* The keys list_products selects for a limit.
SelectedKeys(st, limit) ==
    PySuffix(Sorted({k \in DOMAIN st : k.prefix = PREFIX /\ k.ext = ".jsonl"}), limit)

\* The try block of list_products: the items it returns or the exception
\* that leaves it.  fault names the storage call that fails, if any.
ListItems(st, limit, fault) ==
    LET keys == Sorted({k \in DOMAIN st : k.prefix = PREFIX /\ k.ext = ".jsonl"})
        sel  == PySuffix(keys, limit)
        rs   == [j \in 1..Len(sel) |->
                    IF fault.call = "get" /\ fault.n = j
                    THEN Raise(fault.kind)
                    ELSE ParseBody(st[sel[j]])]
    IN  IF fault.call = "list" THEN Raise(fault.kind)
        ELSE IF keys = <<>> THEN Ok(<<>>)
        ELSE IF \E j \in 1..Len(sel) : ~rs[j].ok
        THEN rs[CHOOSE j \in 1..Len(sel) :
                    ~rs[j].ok /\ \A i \in 1..(j - 1) : rs[i].ok]
        ELSE Ok(Flatten([j \in 1..Len(sel) |-> rs[j].val]))

\* GET /products: the HTTP response.  A ClientError becomes
\* HTTPException(500, detail=str(e)); any other exception leaves the handler
\* and the server answers 500 with its own fixed text.
ListProducts(st, limit, fault) ==
    LET r == ListItems(st, limit, fault)
    IN  IF r.ok THEN [status |-> 200, items |-> r.val, detail |-> ""]
        ELSE IF r.err \in ClientErrors
        THEN [status |-> 500, items |-> <<>>, detail |-> r.err]
        ELSE [status |-> 500, items |-> <<>>, detail |-> "Internal Server Error"]

(***************************************************************************)
(* The weather provider and fetch_weather                                  *)
(***************************************************************************)
Luxembourg == Dict([name |-> Str("Luxembourg"), lat |-> Num(49), lon |-> Num(6)])

Chicago == Dict([name |-> Str("Chicago"), lat |-> Num(41), lon |-> Num(-87)])

\* config.coords: the default list and shorter ones.
CoordLists == {<<>>, <<Luxembourg>>, <<Luxembourg, Chicago>>}

\* A complete current-weather document for coordinate c.
Observation(c) ==
    Dict([coord   |-> Dict([lat |-> c.m.lat, lon |-> c.m.lon]),
          main    |-> Dict([temp |-> Num(7), feels_like |-> Num(6),
                            humidity |-> Num(41), pressure |-> Num(1)]),
          wind    |-> Dict([speed |-> Num(1), deg |-> Num(0)]),
          sys     |-> Dict([sunrise |-> Num(6), sunset |-> Num(7)]),
          weather |-> List(<<Dict([description |-> Str("clear sky")])>>),
          dt      |-> Num(1)])

\* What the provider can answer to the request for coordinate c: a document,
\* a document whose "main" is null, a JSON value that is no object, a
\* non-success status, or nothing before the timeout.
ProviderAnswers(c) ==
    {[kind |-> "ok", json |-> Observation(c)],
     [kind |-> "ok", json |-> Dict([main |-> None, dt |-> Num(1)])],
     [kind |-> "ok", json |-> List(<<>>)],
     [kind |-> "status", json |-> None],
     [kind |-> "timeout", json |-> None]}

\* Variant: the annotation leaves the display name out.
AnnotateWithoutName(data, c) ==
    Dict(("_meta" :> Dict([requested_name |-> None,
                           requested_lat  |-> c.m.lat,
                           requested_lon  |-> c.m.lon])) @@ data.m)

\* data["_meta"] = {...}
Annotate(data, c) ==
    Dict(("_meta" :> Dict([requested_name |-> Get(c, "name"),
                           requested_lat  |-> c.m.lat,
                           requested_lon  |-> c.m.lon])) @@ data.m)

\* Variant: a non-success status is logged and the coordinate skipped.
FetchStepSkipFailed(c, a) ==
    IF a.kind = "timeout" THEN Raise("Timeout")
    ELSE IF a.kind = "status" THEN Ok(Annotate(EmptyDict, c))
    ELSE IF ~IsDict(a.json) THEN Raise("TypeError")
    ELSE Ok(Annotate(a.json, c))

\* One pass of the loop of fetch_weather for coordinate c answered by a:
\* the observation appended to `out`, or the exception raised.
FetchStep(c, a) ==
    IF a.kind = "timeout" THEN Raise("Timeout")
    ELSE IF a.kind = "status" THEN Raise("HTTPError")
    ELSE IF ~IsDict(a.json) THEN Raise("TypeError")
    ELSE Ok(Annotate(a.json, c))

(***************************************************************************)
(* dagster_metrics: JobMetricsContext and the job-level metrics            *)
(***************************************************************************)
MaxContexts == 2

Contexts == 1..MaxContexts

JobNames == {"weather_product_job", "demo_flaky_job"}

\* exc_type as __exit__ receives it: "none" when the block ended normally.
ExcTypes == {"none", "RuntimeError"}

\* The metrics as the module creates them, with no instance constructed.
MetricsInit ==
    /\ ctx = [i \in Contexts |-> None]
    /\ ctxPc = [i \in Contexts |-> "absent"]
    /\ observed = [i \in Contexts |-> "none"]
    /\ propagated = [i \in Contexts |-> FALSE]
    /\ dagster_job_total = [n \in JobNames |-> 0]
    /\ dagster_job_success_total = [n \in JobNames |-> 0]
    /\ dagster_job_failure_total = [n \in JobNames |-> 0]
    /\ dagster_jobs_running = 0
    /\ dagster_run_duration_seconds = [n \in JobNames |-> [count |-> 0, sum |-> 0]]

\* Variant: the gauge is decremented on the success path only.
JobExitLeakingOnFailure(excType) ==
    [running |-> IF excType = "none" THEN -1 ELSE 0,
     success |-> IF excType = "none" THEN 1 ELSE 0,
     failure |-> IF excType = "none" THEN 0 ELSE 1,
     ret     |-> FALSE]

\* JobMetricsContext.__exit__: what it adds to the gauge and to the success
\* and failure counters of its job, and the value it returns.
JobExit(excType) ==
    [running |-> -1,
     success |-> IF excType = "none" THEN 1 ELSE 0,
     failure |-> IF excType = "none" THEN 0 ELSE 1,
     ret     |-> FALSE]

\* JobMetricsContext(job_name)
Create(i, name) ==
    /\ ctxPc[i] = "absent"
    /\ ctx' = [ctx EXCEPT ![i] = [job_name |-> name, start_time |-> None]]
    /\ ctxPc' = [ctxPc EXCEPT ![i] = "created"]
    /\ UNCHANGED <<now, store, pipeVars, input, output, observed, propagated,
                   dagster_job_total, dagster_job_success_total,
                   dagster_job_failure_total, dagster_jobs_running,
                   dagster_run_duration_seconds>>

\* The with statement enters instance i: JobMetricsContext.__enter__
Enter(i) ==
    /\ ctxPc[i] = "created"
    /\ ctx' = [ctx EXCEPT ![i].start_time = Num(now)]
    /\ dagster_job_total' =
          [dagster_job_total EXCEPT ![ctx[i].job_name] = @ + 1]
    /\ dagster_jobs_running' = dagster_jobs_running + 1
    /\ ctxPc' = [ctxPc EXCEPT ![i] = "entered"]
    /\ UNCHANGED <<now, store, pipeVars, input, output, observed, propagated,
                   dagster_job_success_total, dagster_job_failure_total,
                   dagster_run_duration_seconds>>

\* The block of instance i ends, normally or with an exception of type
\* excType: JobMetricsContext.__exit__, then the with statement re-raises
\* the exception unless __exit__ returned a true value.
Exit(i, excType) ==
    /\ ctxPc[i] = "entered"
    /\ LET name     == ctx[i].job_name
           duration == now - ctx[i].start_time.n
           e        == JobExit(excType)
       IN  /\ dagster_run_duration_seconds' =
                 [dagster_run_duration_seconds EXCEPT
                    ![name] = [count |-> @.count + 1, sum |-> @.sum + duration]]
           /\ dagster_jobs_running' = dagster_jobs_running + e.running
           /\ dagster_job_success_total' =
                 [dagster_job_success_total EXCEPT ![name] = @ + e.success]
           /\ dagster_job_failure_total' =
                 [dagster_job_failure_total EXCEPT ![name] = @ + e.failure]
           /\ observed' = [observed EXCEPT ![i] = excType]
           /\ propagated' = [propagated EXCEPT ![i] = excType # "none" /\ ~e.ret]
    /\ ctxPc' = [ctxPc EXCEPT ![i] = "exited"]
    /\ UNCHANGED <<now, store, pipeVars, input, output, ctx, dagster_job_total>>

(***************************************************************************)
(* weather_product_job: upload_to_s3(transform_weather(fetch_weather()))   *)
(***************************************************************************)
\* Variant: the next op starts whether or not the op raised.
AfterOpIgnoringFailure(r, next) == next

\* An op that raised fails the run and its downstream ops never start; one
\* that returned hands over to the op that consumes its output.
AfterOp(r, next) == IF r.ok THEN next ELSE "failed"

\* A run is launched (no run is in progress: runs against one prefix do not
\* overlap); fetch_weather starts and resolves the API key.
StartJob(cs, key) ==
    /\ pc \in {"idle", "done", "failed"}
    /\ coords' = cs
    /\ apiKey' = key
    /\ store0' = store
    /\ out' = <<>>
    /\ raw' = NoOutput
    /\ products' = NoOutput
    /\ result' = NoOutput
    /\ requests' = <<>>
    /\ sleeps' = 0
    /\ puts' = 0
    /\ stages' = <<"fetch_weather">>
    /\ failure' = IF key THEN "none" ELSE "RuntimeError"
    /\ pc' = AfterOp(IF key THEN Ok(None) ELSE Raise("RuntimeError"), "fetch")
    /\ UNCHANGED <<now, store, input, output>>
    /\ UNCHANGED metricVars

\* One pass of the loop of fetch_weather: the request for the next
\* coordinate, then either an exception or append, sleep and log.
FetchOne ==
    /\ pc = "fetch"
    /\ Len(out) < Len(coords)
    /\ \E a \in ProviderAnswers(coords[Len(out) + 1]) :
       LET i == Len(out) + 1
           r == FetchStep(coords[i], a)
       IN  /\ requests' = Append(requests,
                                  [i |-> i, lat |-> coords[i].m.lat,
                                   lon |-> coords[i].m.lon,
                                   kind |-> a.kind, json |-> a.json])
           /\ out' = IF r.ok THEN Append(out, r.val) ELSE out
           /\ sleeps' = IF r.ok THEN sleeps + 1 ELSE sleeps
           /\ failure' = IF r.ok THEN failure ELSE r.err
           /\ pc' = AfterOp(r, "fetch")
    /\ UNCHANGED <<now, store, store0, coords, apiKey, raw, products, result,
                   stages, puts, input, output>>
    /\ UNCHANGED metricVars

\* The loop is over: fetch_weather returns `out` and transform_weather starts.
FetchReturn ==
    /\ pc = "fetch"
    /\ Len(out) = Len(coords)
    /\ raw' = List(out)
    /\ stages' = Append(stages, "transform_weather")
    /\ pc' = AfterOp(Ok(List(out)), "transform")
    /\ UNCHANGED <<now, store, store0, coords, apiKey, out, products, result,
                   requests, sleeps, failure, puts, input, output>>
    /\ UNCHANGED metricVars

\* transform_weather runs on the fetched list; upload_to_s3 starts if it returns.
Transform ==
    /\ pc = "transform"
    /\ LET r == TransformWeather(raw.l, now)
       IN  /\ products' = IF r.ok THEN List(r.val) ELSE products
           /\ failure' = IF r.ok THEN failure ELSE r.err
           /\ stages' = IF r.ok THEN Append(stages, "upload_to_s3") ELSE stages
           /\ pc' = AfterOp(r, "publish")
    /\ UNCHANGED <<now, store, store0, coords, apiKey, out, raw, result, requests,
                   sleeps, puts, input, output>>
    /\ UNCHANGED metricVars

\* upload_to_s3 runs on the products; the run ends when it returns or raises.
Upload(putOk) ==
    /\ pc = "publish"
    /\ LET u == UploadToS3(store, products.l, now, putOk)
       IN  /\ store' = u.store
           /\ puts' = puts + u.puts
           /\ result' = IF u.ret.ok THEN u.ret.val ELSE result
           /\ failure' = IF u.ret.ok THEN failure ELSE u.ret.err
           /\ pc' = AfterOp(u.ret, "done")
    /\ UNCHANGED <<now, store0, coords, apiKey, out, raw, products, requests,
                   sleeps, stages, input, output>>
    /\ UNCHANGED metricVars

\* A second of wall-clock time passes.
Tick ==
    /\ now < MaxTime
    /\ now' = now + 1
    /\ UNCHANGED <<store, pipeVars, input, output>>
    /\ UNCHANGED metricVars

Init ==
    /\ MetricsInit
    /\ pc = "idle"
    /\ now = 0
    /\ store = <<>>
    /\ store0 = <<>>
    /\ coords = <<>>
    /\ apiKey = TRUE
    /\ out = <<>>
    /\ raw = NoOutput
    /\ products = NoOutput
    /\ result = NoOutput
    /\ requests = <<>>
    /\ sleeps = 0
    /\ stages = <<>>
    /\ failure = "none"
    /\ puts = 0
    /\ input = NoOutput
    /\ output = NoOutput

Next ==
    \/ \E cs \in CoordLists, key \in BOOLEAN : StartJob(cs, key)
    \/ FetchOne
    \/ FetchReturn
    \/ Transform
    \/ \E putOk \in BOOLEAN : Upload(putOk)
    \/ Tick

Spec == Init /\ [][Next]_vars

(***************************************************************************)
(* The read side alone: GET /products over a bucket that holds batches as  *)
(* the pipeline writes them, damaged batches and foreign objects.          *)
(***************************************************************************)
MaxLimit == 3

ProductOf(c, t) == TransformOne(Annotate(Observation(c), c), IsoFormat(t)).val

\* Bodies a bucket may hold: a batch as published, a batch followed by a
\* blank line, a batch whose second line is cut short, and one whose first
\* line is no JSON.
ReadBodies ==
    LET one == BodyOf(<<ProductOf(Luxembourg, 0)>>)
        two == BodyOf(<<ProductOf(Luxembourg, 1), ProductOf(Chicago, 1)>>)
    IN  {two,
         one \o <<Newline, Blank, Newline>>,
         one \o <<Newline>> \o SubSeq(one, 1, 6),
         <<Junk, Newline>> \o one}

\* An object under the prefix without the .jsonl suffix, and one elsewhere.
ForeignObjects ==
    ([prefix |-> PREFIX, stamp |-> Stamp(MaxTime), ext |-> ".tmp"] :> <<Junk>>)
    @@ ([prefix |-> "other/", stamp |-> Stamp(MaxTime), ext |-> ".jsonl"] :> <<Junk>>)

ReadStores ==
    {f @@ g :
        f \in UNION {[S -> ReadBodies] : S \in SUBSET {KeyOf(t) : t \in 0..MaxTime}},
        g \in {<<>>, ForeignObjects}}

\* GET /products?limit=<limit>, with the storage fault the request meets.
GetProducts(limit, fault) ==
    /\ output = NoOutput
    /\ input' = [limit |-> limit, fault |-> fault]
    /\ output' = ListProducts(store, limit, fault)
    /\ UNCHANGED <<now, store, pipeVars>>
    /\ UNCHANGED metricVars

\* The response has been sent; the next request is a separate one.
Deliver ==
    /\ output # NoOutput
    /\ input' = NoOutput
    /\ output' = NoOutput
    /\ UNCHANGED <<now, store, pipeVars>>
    /\ UNCHANGED metricVars

InitRead ==
    /\ MetricsInit
    /\ store \in ReadStores
    /\ pc = "idle"
    /\ now = 0
    /\ store0 = <<>>
    /\ coords = <<>>
    /\ apiKey = TRUE
    /\ out = <<>>
    /\ raw = NoOutput
    /\ products = NoOutput
    /\ result = NoOutput
    /\ requests = <<>>
    /\ sleeps = 0
    /\ stages = <<>>
    /\ failure = "none"
    /\ puts = 0
    /\ input = NoOutput
    /\ output = NoOutput

NextRead ==
    \/ \E limit \in 0..MaxLimit, fault \in Faults : GetProducts(limit, fault)
    \/ Deliver

SpecRead == InitRead /\ [][NextRead]_vars

(***************************************************************************)
(* transform_weather alone, over raw observations whose sections are       *)
(* present, null or missing, and over values that are no mapping.          *)
(***************************************************************************)
SectionChoices == {"missing", "null", "value"}

Entry(k, choice, v) ==
    IF choice = "missing" THEN <<>>
    ELSE IF choice = "null" THEN (k :> None)
    ELSE (k :> v)

RawObservations ==
    LET full == Annotate(Observation(Luxembourg), Luxembourg).m
    IN  {Dict(Entry("main", a, full.main) @@ Entry("wind", b, full.wind)
              @@ Entry("sys", c, full.sys) @@ Entry("coord", d, full.coord)
              @@ Entry("weather", e, full.weather) @@ Entry("_meta", f, full._meta)
              @@ Entry("dt", g, full.dt) @@ Entry("name", h, Str("Luxembourg City"))) :
            a \in SectionChoices, b \in SectionChoices, c \in SectionChoices,
            d \in SectionChoices, e \in SectionChoices, f \in SectionChoices,
            g \in {"missing", "value"}, h \in {"missing", "value"}}
        \cup {None, List(<<>>), Num(1), Str("x")}

\* transform_weather is called on the one-element list [input].
RunTransform ==
    /\ output' = TransformWeather(<<input>>, now)
    /\ UNCHANGED <<now, store, pipeVars, input>>
    /\ UNCHANGED metricVars

InitTransform ==
    /\ MetricsInit
    /\ input \in RawObservations
    /\ store = <<>>
    /\ pc = "idle"
    /\ now = 0
    /\ store0 = <<>>
    /\ coords = <<>>
    /\ apiKey = TRUE
    /\ out = <<>>
    /\ raw = NoOutput
    /\ products = NoOutput
    /\ result = NoOutput
    /\ requests = <<>>
    /\ sleeps = 0
    /\ stages = <<>>
    /\ failure = "none"
    /\ puts = 0
    /\ output = NoOutput

NextTransform == RunTransform \/ Tick

SpecTransform == InitTransform /\ [][NextTransform]_vars

(***************************************************************************)
(* transform_weather called twice, on two lists and at two times           *)
(***************************************************************************)
\* Raw observations: a full Luxembourg document; the same place and provider
\* time with every other section absent; the same document under another
\* requested name; Luxembourg at a later provider time; Chicago; and a
\* document whose "main" is null.
RawSamples ==
    {Annotate(Observation(Luxembourg), Luxembourg),
     Dict([coord |-> Observation(Luxembourg).m.coord, dt |-> Num(1)]),
     Annotate(Observation(Luxembourg), Chicago),
     Dict([coord |-> Observation(Luxembourg).m.coord, dt |-> Num(6)]),
     Annotate(Observation(Chicago), Chicago),
     Dict([main |-> None, dt |-> Num(1)])}

\* Lists of at most two raw observations.
RawLists ==
    {<<>>} \cup {<<a>> : a \in RawSamples}
           \cup {<<a, b>> : a \in RawSamples, b \in RawSamples}

\* The first call, transform_weather(raw), at the current clock value.
TransformFirst ==
    /\ products = NoOutput
    /\ products' = TransformWeather(raw.l, now)
    /\ UNCHANGED <<now, store, store0, pc, coords, apiKey, out, raw, result,
                   requests, sleeps, stages, failure, puts, input, output>>
    /\ UNCHANGED metricVars

\* The second call, transform_weather(input), at the current clock value.
TransformAgain ==
    /\ products # NoOutput
    /\ output = NoOutput
    /\ output' = TransformWeather(input.l, now)
    /\ UNCHANGED <<now, store, pipeVars, input>>
    /\ UNCHANGED metricVars

InitRepeat ==
    /\ MetricsInit
    /\ raw \in {List(l) : l \in RawLists}
    /\ input \in {List(l) : l \in RawLists}
    /\ store = <<>>
    /\ pc = "idle"
    /\ now = 0
    /\ store0 = <<>>
    /\ coords = <<>>
    /\ apiKey = TRUE
    /\ out = <<>>
    /\ products = NoOutput
    /\ result = NoOutput
    /\ requests = <<>>
    /\ sleeps = 0
    /\ stages = <<>>
    /\ failure = "none"
    /\ puts = 0
    /\ output = NoOutput

NextRepeat == TransformFirst \/ TransformAgain \/ Tick

SpecRepeat == InitRepeat /\ [][NextRepeat]_vars

(***************************************************************************)
(* JobMetricsContext instances entered and exited in any interleaving      *)
(***************************************************************************)
InitMetrics ==
    /\ MetricsInit
    /\ store = <<>>
    /\ pc = "idle"
    /\ now = 0
    /\ store0 = <<>>
    /\ coords = <<>>
    /\ apiKey = TRUE
    /\ out = <<>>
    /\ raw = NoOutput
    /\ products = NoOutput
    /\ result = NoOutput
    /\ requests = <<>>
    /\ sleeps = 0
    /\ stages = <<>>
    /\ failure = "none"
    /\ puts = 0
    /\ input = NoOutput
    /\ output = NoOutput

NextMetrics ==
    \/ \E i \in Contexts, name \in JobNames : Create(i, name)
    \/ \E i \in Contexts : Enter(i)
    \/ \E i \in Contexts, excType \in ExcTypes : Exit(i, excType)
    \/ Tick

SpecMetrics == InitMetrics /\ [][NextMetrics]_vars

(***************************************************************************)
(* Properties                                                              *)
(***************************************************************************)
Min(a, b) == IF a < b THEN a ELSE b

Range(f) == {f[i] : i \in DOMAIN f}

BatchKeys(st) == {k \in DOMAIN st : k.prefix = PREFIX /\ k.ext = ".jsonl"}

\* A line that list_products must parse and that is no JSON.
HasMalformedLine(body) ==
    \E i \in 1..Len(SplitLines(body)) :
        NonBlank(SplitLines(body)[i]) /\ ~JsonLoads(SplitLines(body)[i]).ok

\* The records of a well-formed body, in line order.
RecordsOf(body) ==
    LET lines == SelectSeq(SplitLines(body), NonBlank)
    IN  [i \in 1..Len(lines) |-> JsonLoads(lines[i]).val]

\* The records of the n objects of greatest key, each object's in line order.
LatestRecords(st, n) ==
    LET keys == Sorted(BatchKeys(st))
        K    == Len(keys)
    IN  Flatten([j \in 1..n |-> RecordsOf(st[keys[K - n + j]])])

\* C1: for every bucket and every limit N >= 0, a request that meets no
\* storage fault over well-formed batches answers 200 with exactly the records
\* of the min(N, K) batches of greatest key (none when K = 0), each batch's
\* records in line order.
C1_ListReturnsLatestN ==
    (/\ output # NoOutput
     /\ input.fault = NoFault
     /\ \A k \in BatchKeys(store) : ~HasMalformedLine(store[k]))
    => /\ output.status = 200
       /\ output.items =
            LatestRecords(store, Min(input.limit, Cardinality(BatchKeys(store))))

\* C2: no step overwrites or deletes an object: a key that exists keeps its
\* body for ever.
C2_WriteOnce ==
    [][\A k \in DOMAIN store : k \in DOMAIN store' /\ store'[k] = store[k]]_vars

StageOrder == <<"fetch_weather", "transform_weather", "upload_to_s3">>

\* C3: the ops of a run start in the order fetch, transform, publish, each at
\* most once; transform starts only once fetch has returned, publish only
\* once transform has returned; a run that continues has met no failure, and
\* a failed run started no further op, returned nothing, and a failed publish
\* issued its one put and left the bucket as it was.
C3_StagesSequential ==
    /\ Len(stages) <= Len(StageOrder)
    /\ \A i \in 1..Len(stages) : stages[i] = StageOrder[i]
    /\ pc = "fetch" => Len(stages) = 1
    /\ pc = "transform" => Len(stages) = 2
    /\ pc \in {"publish", "done"} => Len(stages) = 3
    /\ pc \in {"fetch", "transform", "publish", "done"} => failure = "none"
    /\ Len(stages) >= 2 <=> raw # NoOutput
    /\ Len(stages) = 3 <=> products # NoOutput
    /\ raw # NoOutput => Len(raw.l) = Len(coords) /\ Len(requests) = Len(coords)
    /\ products # NoOutput => Len(products.l) = Len(raw.l)
    /\ Len(requests) <= Len(coords)
    /\ puts <= 1
    /\ puts = 1 => Len(stages) = 3
    /\ result # NoOutput <=> pc = "done"
    /\ pc = "failed" =>
         /\ failure # "none"
         /\ Len(stages) = 3 => puts = 1 /\ store = store0

C3_Witness ==
    /\ pc = "failed"
    /\ stages = StageOrder
    /\ failure = "ClientError"
    /\ DOMAIN store # {}

\* C4: the requests of a run go to the coordinates in list order, one each;
\* a request answered with a non-success status is the run's last one, and
\* the run has then failed, fetch returned no list, no record was produced
\* and no object written.
C4_FetchFailsWhole ==
    /\ \A j \in 1..Len(requests) : requests[j].i = j
    /\ \A j \in 1..Len(requests) :
         requests[j].kind = "status" =>
            /\ j = Len(requests)
            /\ pc = "failed"
            /\ failure = "HTTPError"
            /\ raw = NoOutput
            /\ products = NoOutput
            /\ result = NoOutput
            /\ stages = <<"fetch_weather">>
            /\ puts = 0
            /\ store = store0

C4_Witness ==
    /\ Len(requests) = 2
    /\ requests[2].kind = "status"
    /\ Len(out) = 1
    /\ pc = "failed"

IsNormalizedRecord(v) == DOMAIN v = Range(SchemaFields)

\* C6: every .jsonl object under the prefix is newline-delimited JSON: every
\* line is non-blank and parses to one normalized record, and the text does
\* not end in a line break.
C6_StoredObjectsAreNdjson ==
    \A k \in BatchKeys(store) :
        LET body  == store[k]
            lines == SplitLines(body)
        IN  /\ body # <<>>
            /\ body[Len(body)] # Newline
            /\ \A i \in 1..Len(lines) :
                  /\ NonBlank(lines[i])
                  /\ JsonLoads(lines[i]).ok
                  /\ IsNormalizedRecord(JsonLoads(lines[i]).val)

C6_Witness ==
    /\ pc = "failed"
    /\ stages = StageOrder
    /\ puts = 1
    /\ \E k \in BatchKeys(store) : Len(SplitLines(store[k])) = 2

\* C7: upload_to_s3 on an empty batch returns "" and issues no put; the
\* bucket is as it was.
C7_EmptyBatchWritesNothing ==
    (products = List(<<>>) /\ pc \in {"done", "failed"})
    => /\ pc = "done"
       /\ result = Str("")
       /\ puts = 0
       /\ store = store0

C7_Witness ==
    /\ products = List(<<>>)
    /\ pc = "done"
    /\ result = Str("")
    /\ DOMAIN store # {}

\* C8: a request that meets no storage fault answers 500 with no record when
\* a selected object has a non-blank line that is no JSON, and 200 with the
\* records of all selected objects otherwise; no request changes the bucket.
C8_MalformedLineFailsRequest ==
    /\ [](output # NoOutput /\ input.fault = NoFault =>
            LET sel == SelectedKeys(store, input.limit)
            IN  IF \E j \in 1..Len(sel) : HasMalformedLine(store[sel[j]])
                THEN output.status = 500 /\ output.items = <<>>
                ELSE /\ output.status = 200
                     /\ output.items = Flatten([j \in 1..Len(sel) |-> RecordsOf(store[sel[j]])]))
    /\ [][store' = store]_vars

\* The latest batch is well-formed, the one before it is not; limit=2 fails.
C8_Witness ==
    /\ output # NoOutput
    /\ input.fault = NoFault
    /\ input.limit = 2
    /\ LET sel == SelectedKeys(store, 2)
       IN  /\ Len(sel) = 2
           /\ HasMalformedLine(store[sel[1]])
           /\ ~HasMalformedLine(store[sel[2]])
           /\ JsonLoads(SplitLines(store[sel[1]])[1]).ok
    /\ output.status = 500
    /\ output.items = <<>>

\* C9: transform_weather on a mapping never raises, and its record has the
\* fifteen schema fields, those without a source value being None.
C9_MappingNeverFails ==
    (output # NoOutput /\ IsDict(input))
    => /\ output.ok
       /\ LET p    == output.val[1]
              w    == input.m
              Gone(k) == k \notin DOMAIN w \/ w[k] = None
          IN  /\ IsNormalizedRecord(p)
              /\ Gone("main") => p.temp = None /\ p.feels_like = None
                                  /\ p.humidity = None /\ p.pressure = None
              /\ Gone("wind") => p.wind_speed = None /\ p.wind_deg = None
              /\ Gone("sys") => p.sunrise = None /\ p.sunset = None
              /\ Gone("coord") => p.lat = None /\ p.lon = None
              /\ Gone("weather") => p.weather = None
              /\ Gone("_meta") /\ Gone("name") => p.location_name = None

\* C10: whatever storage call fails and whatever the failure, the response is
\* a 500 whose detail is the failure's description, with no record.
C10_StorageFailureIs500WithCause ==
    output # NoOutput =>
        LET r == ListItems(store, input.limit, input.fault)
        IN  (~r.ok /\ r.err \in StorageErrors)
            => /\ output.status = 500
               /\ output.detail = r.err
               /\ output.items = <<>>

(***************************************************************************)
(* C11: fetch_weather, one request and one observation per coordinate      *)
(***************************************************************************)
\* The provider answered request j with a success status and a JSON object.
Succeeded(j) == requests[j].kind = "ok" /\ IsDict(requests[j].json)

\* The entries of observation w other than the "_meta" annotation.
WithoutMeta(w) == [k \in DOMAIN w.m \ {"_meta"} |-> w.m[k]]

\* C11: when fetch_weather has returned, it has issued exactly one request
\* per coordinate, in list order and with that coordinate's lat and lon,
\* every one of them succeeded, and the list returned has one observation
\* per coordinate: the i-th is the answer to the i-th request and carries a
\* "_meta" entry with the i-th coordinate's name, lat and lon. While all
\* requests so far have succeeded, fetch_weather has not failed.
C11_FetchOnePerCoordinateInOrder ==
    /\ raw # NoOutput =>
          /\ Len(raw.l) = Len(coords)
          /\ Len(requests) = Len(coords)
          /\ \A i \in 1..Len(coords) :
                /\ requests[i].i = i
                /\ requests[i].lat = coords[i].m.lat
                /\ requests[i].lon = coords[i].m.lon
                /\ Succeeded(i)
                /\ IsDict(raw.l[i])
                /\ WithoutMeta(raw.l[i]) = WithoutMeta(requests[i].json)
                /\ raw.l[i].m["_meta"] =
                      Dict([requested_name |-> coords[i].m.name,
                            requested_lat  |-> coords[i].m.lat,
                            requested_lon  |-> coords[i].m.lon])
    /\ (apiKey /\ \A j \in 1..Len(requests) : Succeeded(j)) =>
          ~(pc = "failed" /\ stages = <<"fetch_weather">>)

C11_Witness ==
    /\ raw # NoOutput
    /\ Len(coords) = 2
    /\ Len(raw.l) = 2
    /\ raw.l[1].m["_meta"].m.requested_name = Str("Luxembourg")
    /\ raw.l[2].m["_meta"].m.requested_name = Str("Chicago")
    /\ raw.l[1] # raw.l[2]

(***************************************************************************)
(* C12: transform_weather keeps length and order; ids depend on            *)
(* (lat, lon, dt) only                                                     *)
(***************************************************************************)
\* (lat, lon, dt) of a raw observation, as the provider reported them.
Triple(w) ==
    LET coord == PyOr(Get(w, "coord"), EmptyDict)
    IN  <<Get(coord, "lat"), Get(coord, "lon"), Get(w, "dt")>>

\* The calls made so far that returned: the list given and the list returned.
ReturnedCalls ==
    {c \in {[given |-> raw.l, res |-> products], [given |-> input.l, res |-> output]} :
        c.res # NoOutput /\ c.res.ok}

\* C12: every list transform_weather returns has the length of the list it
\* was given and its i-th record is made from the i-th observation (its
\* lat, lon and temperature are that observation's); and any two records,
\* of one call or of two calls at different times, whose observations have
\* the same (lat, lon, dt) have the same id, whatever else differs between
\* the observations and between the collection times.
C12_IdDependsOnlyOnPlaceAndTime ==
    /\ \A c \in ReturnedCalls :
          /\ Len(c.res.val) = Len(c.given)
          /\ \A i \in 1..Len(c.given) :
                /\ c.res.val[i].lat = Triple(c.given[i])[1]
                /\ c.res.val[i].lon = Triple(c.given[i])[2]
                /\ c.res.val[i].temp = Get(GetDefault(c.given[i], "main", EmptyDict), "temp")
    /\ \A c \in ReturnedCalls, d \in ReturnedCalls :
          \A i \in 1..Len(c.given), j \in 1..Len(d.given) :
             Triple(c.given[i]) = Triple(d.given[j]) =>
                c.res.val[i].id = d.res.val[j].id

C12_Witness ==
    /\ products # NoOutput /\ products.ok
    /\ output # NoOutput /\ output.ok
    /\ Len(raw.l) = 2 /\ Len(input.l) = 2
    /\ raw.l[1] # input.l[1]
    /\ Triple(raw.l[1]) = Triple(input.l[1])
    /\ Triple(raw.l[1]) # Triple(raw.l[2])
    /\ products.val[1].collected_at # output.val[1].collected_at
    /\ products.val[1].location_name # output.val[1].location_name
    /\ products.val[1].id = output.val[1].id
    /\ products.val[1].id # products.val[2].id

(***************************************************************************)
(* C13: the delay between provider requests                                *)
(***************************************************************************)
\* C13: the delay of fetch_weather happens only between two requests: a
\* call that returned for n >= 1 coordinates slept exactly n - 1 times, so
\* not after its last request and not at all for a single coordinate.
C13_DelayOnlyBetweenRequests ==
    (raw # NoOutput /\ Len(coords) >= 1) => sleeps = Len(coords) - 1

(***************************************************************************)
(* C14: the job metrics under interleaved contexts                         *)
(***************************************************************************)
\* The instances entered and not yet exited.
Running == {i \in Contexts : ctxPc[i] = "entered"}

RunningOf(name) == {i \in Running : ctx[i].job_name = name}

\* C14: however the __enter__ and __exit__ calls of the instances
\* interleave, the gauge dagster_jobs_running is the number of instances
\* entered and not yet exited and is never negative; for every job name
\* dagster_job_total is the sum of the success counter, the failure counter
\* and the number of instances of that name still running; and an
\* exception given to __exit__ always leaves the with block.
C14_GaugeAndCountersBalance ==
    /\ dagster_jobs_running = Cardinality(Running)
    /\ dagster_jobs_running >= 0
    /\ \A name \in JobNames :
          dagster_job_total[name] =
             dagster_job_success_total[name] + dagster_job_failure_total[name]
                + Cardinality(RunningOf(name))
    /\ \A i \in Contexts :
          (ctxPc[i] = "exited" /\ observed[i] # "none") => propagated[i]

\* Two instances of one job overlapped: the second was entered while the
\* first ran, and the first has since exited with an exception.
C14_Witness ==
    /\ ctxPc[1] = "exited"
    /\ observed[1] = "RuntimeError"
    /\ ctxPc[2] = "entered"
    /\ ctx[1].job_name = ctx[2].job_name
    /\ ctx[1].start_time.n < ctx[2].start_time.n
    /\ ctx[2].start_time.n
          < ctx[1].start_time.n + dagster_run_duration_seconds[ctx[1].job_name].sum
    /\ dagster_job_total[ctx[1].job_name] = 2
    /\ dagster_job_failure_total[ctx[1].job_name] = 1
    /\ dagster_jobs_running = 1

=============================================================================
